---------------------------- MODULE Spec2Model ----------------------------
(***************************************************************************)
(* Model of yt2mp3/convert.py: the download orchestrator process_url, the  *)
(* authentication fallback of _process_single, the per-item pipelines      *)
(* _download_audio / _download_video and the process-wide OAuth prompt     *)
(* flag.  The remote platform (pytubefix), the byte transfer and the       *)
(* external transcoder (ffmpeg) are the environment: each of their calls   *)
(* either succeeds or raises one of the exceptions the code distinguishes. *)
(***************************************************************************)
EXTENDS Integers, Sequences, FiniteSets, TLC

\* ------------------------------------------------------------------ bounds
\* Largest playlist the model resolves.
MaxMembers == 2

\* --------------------------------------------------------------- constants
\* for attempt in range(5)
FRESH_TRIES == 5
\* wait = 3 + attempt * 2
WAIT_BASE == 3
WAIT_STEP == 2

\* Sanitized titles of the items the platform can return.
Titles == {"a", "b"}

\* The three output modes of the contract process(url, out_dir, mode).
Modes == {"audio", "video", "video_remux"}

\* Exceptions the environment raises, by the class the handlers test.
HTTPErrors == {"HTTP400", "HTTP403", "HTTP428"}
ExtractErrors == {"AgeRestrictedError", "AgeCheckRequiredAccountError"} \cup HTTPErrors

\* he.code of an urllib HTTPError
Code(e) == CASE e = "HTTP400" -> 400
             [] e = "HTTP403" -> 403
             [] e = "HTTP428" -> 428
             [] OTHER -> 0

\* Names bound in convert.py's module namespace by its import statements and
\* its top-level definitions.  time is not among them.
ModuleGlobals ==
  {"Path", "os", "re", "sys", "Optional", "tqdm", "cookiejar", "MozillaCookieJar",
   "urlreq", "urlerr", "YouTube", "Playlist", "yt_ex", "ffmpeg",
   "_oauth_verifier_once", "_install_cookie_opener", "_reset_opener",
   "_probe_audio_channels", "_aac_bitrate_for_channels", "_slugify", "_print",
   "_progress_cb", "_best_video_stream", "_best_audio_stream", "_download_stream",
   "_mux_av", "_to_mp3", "_download_video", "_download_audio", "_process_single",
   "process_url"}

NameDefined(n) == n \in ModuleGlobals

\* Files of the output directory: <<kind, sanitized title>>.
TmpKinds == {"tmp_video", "tmp_audio"}
OutKinds == {"mp3", "mp4", "mkv"}
FileNames == (TmpKinds \cup OutKinds) \X Titles

\* The handles YouTube(...) builds in the three states.
AnonymousHandle == [use_oauth |-> FALSE, allow_oauth_cache |-> TRUE, verifier |-> FALSE]
\* Variant: try block 2 builds its handle as the fresh-OAuth block does.
CachedHandleWithVerifier ==
  [use_oauth |-> TRUE, allow_oauth_cache |-> FALSE, verifier |-> TRUE]
CachedHandle == [use_oauth |-> TRUE, allow_oauth_cache |-> TRUE, verifier |-> FALSE]
FreshHandle == [use_oauth |-> TRUE, allow_oauth_cache |-> FALSE, verifier |-> TRUE]

VARIABLES
  verbose,               \* process_url's verbose flag
  mode,                  \* the output mode the caller asks for
  cookieFile,            \* cookies/cookies.txt exists and loads
  upc,                   \* position in process_url
  resolved,              \* outcome of the playlist resolution
  nMembers,              \* len(pl.video_urls)
  idx,                   \* loop index of the member loop (1-based)
  reports,               \* what process_url printed per item, in order
  ipc,                   \* position in _process_single
  item,                  \* 0: the given URL as a single item, i: member i
  title,                 \* sanitized title of the current item
  download_video,        \* _process_single's download_video argument
  use_mkv,               \* _process_single's use_mkv argument
  authState,             \* which of the three try blocks is running
  attempt,               \* loop variable of the fresh-OAuth loop
  handle,                \* yt
  err,                   \* exception raised by the last failed attempt
  exc,                   \* exception propagating out of _process_single
  result,                \* value returned by _process_single
  fs,                    \* the output directory
  OAUTH_PROMPTED,        \* _OAUTH_PROMPTED
  COOKIE_OPENER_ACTIVE,  \* _COOKIE_OPENER_ACTIVE
  attemptLog,            \* states of the attempts made for the current item
  transcodes,            \* transcode operations started for the current item
  prompts,               \* what _oauth_verifier_once printed, in order
  waits,                 \* seconds slept in the fresh-OAuth loop, current item
  verifierCalls,         \* calls of _oauth_verifier_once for the current item
  calls,                 \* items _process_single was called for, in order
  envNoCookies,          \* os.environ.get("YT2MP3_NO_COOKIES") == "1"
  ppc,                   \* position of the pure-function specifications
  cands,                 \* yt.streams: the candidate list
  vpick,                 \* what _best_video_stream returned
  apick,                 \* what _best_audio_stream returned
  spick,                 \* the stream download_audio (source.py) picked
  rawTitle,              \* the title handed to _slugify
  slug,                  \* what _slugify returned
  chA,                   \* a channel count
  chB,                   \* another channel count
  brA,                   \* _aac_bitrate_for_channels(chA)
  brB,                   \* _aac_bitrate_for_channels(chB)
  probeIn,               \* what ffmpeg.probe answers for the audio input
  probeCh,               \* what _probe_audio_channels returned
  probeBr                \* the bitrate _mux_av derives from the probe

pureVars == <<ppc, cands, vpick, apick, spick, rawTitle, slug, chA, chB, brA, brB,
              probeIn, probeCh, probeBr>>

orchVars == <<verbose, mode, cookieFile, upc, resolved, nMembers, idx, reports, ipc,
              item, title, download_video, use_mkv, authState, attempt, handle, err,
              exc, result, fs, OAUTH_PROMPTED, COOKIE_OPENER_ACTIVE, attemptLog,
              transcodes, prompts, waits, verifierCalls, calls, envNoCookies>>

vars == <<orchVars, pureVars>>

inputVars == <<verbose, mode, cookieFile, envNoCookies, pureVars>>
urlVars == <<upc, resolved, nMembers, idx, reports>>
callVars == <<item, title, download_video, use_mkv>>
globalVars == <<OAUTH_PROMPTED, COOKIE_OPENER_ACTIVE>>

\* The pure-function variables while the orchestrator runs.
SelectIdle ==
  /\ cands = <<>>
  /\ vpick = <<>>
  /\ apick = <<>>
  /\ spick = <<>>

SlugIdle ==
  /\ rawTitle = <<>>
  /\ slug = <<>>

BitrateIdle ==
  /\ chA = 0
  /\ chB = 0
  /\ brA = ""
  /\ brB = ""
  /\ probeIn = <<"none", 0>>
  /\ probeCh = 0
  /\ probeBr = ""

PureIdle ==
  /\ ppc = "idle"
  /\ SelectIdle
  /\ SlugIdle
  /\ BitrateIdle

\* The process before convert.py is imported.
OrchInit ==
  /\ verbose \in BOOLEAN
  /\ mode \in Modes
  /\ cookieFile \in BOOLEAN
  /\ envNoCookies \in BOOLEAN
  /\ upc = "import"
  /\ resolved = "none"
  /\ nMembers = 0
  /\ idx = 0
  /\ reports = <<>>
  /\ ipc = "idle"
  /\ item = 0
  /\ title = "a"
  /\ download_video = FALSE
  /\ use_mkv = FALSE
  /\ authState = "Anonymous"
  /\ attempt = 0
  /\ handle = AnonymousHandle
  /\ err = "none"
  /\ exc = "none"
  /\ result = <<"none", "">>
  /\ fs = [f \in FileNames |-> "absent"]
  /\ OAUTH_PROMPTED = FALSE
  /\ COOKIE_OPENER_ACTIVE = FALSE
  /\ attemptLog = <<>>
  /\ transcodes = <<>>
  /\ prompts = <<>>
  /\ waits = <<>>
  /\ verifierCalls = 0
  /\ calls = <<>>

\* The orchestrator at rest, for the specifications of the pure functions.
OrchIdle ==
  /\ OrchInit
  /\ ~verbose
  /\ mode = "audio"
  /\ ~cookieFile
  /\ ~envNoCookies

Init == OrchInit /\ PureIdle


\* ------------------------------------------------------------ pure helpers
NoResult == <<"none", "">>
\* what a Python function returns when it falls off its end
PyNone == <<"None", "">>

\* _process_single.run_with: the pipeline the two flags select
TranscodeOp(dv, mkv) ==
  IF dv THEN (IF mkv THEN "remux" ELSE "mux_and_transcode")
  ELSE "transcode_audio_only"

\* the extension of out_path in _download_video / _download_audio
OutKind(dv, mkv) ==
  IF dv THEN (IF mkv THEN "mkv" ELSE "mp4")
  ELSE "mp3"

\* The operation and the extension the contract assigns to a requested mode.
ModeOp(m) == CASE m = "audio" -> "transcode_audio_only"
               [] m = "video" -> "mux_and_transcode"
               [] OTHER -> "remux"
ModeKind(m) == CASE m = "audio" -> "mp3"
                 [] m = "video" -> "mp4"
                 [] OTHER -> "mkv"

\* process_url(url, out_dir, *, download_video, verbose): the arguments it
\* hands to _process_single.  It has no use_mkv parameter and passes none, so
\* _process_single's default applies.
ArgDownloadVideo(m) == m # "audio"
ArgUseMkv(m) == FALSE

\* Variant: the handler of try block 1 does not test he.code.
AnonymousEscalatesAnyHTTP(e, v) ==
  \/ e = "AgeRestrictedError"
  \/ e \in HTTPErrors

\* except clauses of the anonymous try block
AnonymousEscalates(e, v) ==
  \/ e = "AgeRestrictedError"
  \/ (e \in HTTPErrors /\ Code(e) = 400 /\ v)

\* except clauses of the cached-OAuth try block
CachedEscalates(e, v) ==
  \/ e \in {"AgeRestrictedError", "AgeCheckRequiredAccountError"}
  \/ (e \in HTTPErrors /\ Code(e) = 400 /\ v)

\* except clause of the fresh-OAuth loop
FreshRetries(e) == e \in HTTPErrors /\ Code(e) = 428

\* temporary inputs the pipeline unlinks on its way out
TmpOf(dv) == IF dv THEN {"tmp_video", "tmp_audio"} ELSE {"tmp_audio"}

\* _oauth_verifier_once(verification_url, user_code)
VerifierPrompt(prompted) == IF ~prompted THEN "device" ELSE "finish"

\* Variant: the verifier never sets the flag.
oauth_verifier_keeps_flag ==
  /\ prompts' = Append(prompts, VerifierPrompt(OAUTH_PROMPTED))
  /\ OAUTH_PROMPTED' = OAUTH_PROMPTED
  /\ verifierCalls' = verifierCalls + 1

oauth_verifier_once ==
  /\ prompts' = Append(prompts, VerifierPrompt(OAUTH_PROMPTED))
  /\ OAUTH_PROMPTED' = TRUE
  /\ verifierCalls' = verifierCalls + 1

\* ------------------------------------------------------- stream selection
\* A stream attribute the platform did not report (Python None).
None == -1

\* capped = [s for s in base if res_px(s) <= 1440 and fps_val(s) <= 60]
MAX_RES == 1440
MAX_FPS == 60

\* Longest candidate list the selection specification draws.
MaxCands == 3

\* Stream descriptors: kind is "video" (video only), "audio" (audio only) or
\* "av" (progressive); res is the resolution in pixels, abr the average
\* bitrate in kbps, each None when the platform reports none.
Stream(k, ad, st, r, f, b, a) ==
  [kind |-> k, adaptive |-> ad, subtype |-> st, res |-> r, fps |-> f,
   bitrate |-> b, abr |-> a]

StreamPool ==
  {Stream("video", TRUE, "mp4", r, f, b, None) :
     r \in {None, 1440}, f \in {60, 120}, b \in {1, 2}}
  \cup {Stream("video", TRUE, "mp4", 2160, 60, 1, None),
        Stream("video", TRUE, "mp4", 4320, 120, 1, None),
        Stream("video", TRUE, "webm", 1440, 60, 2, None),
        Stream("video", TRUE, "webm", 4320, 60, 1, None),
        Stream("av", FALSE, "mp4", 720, 30, 1, None),
        Stream("audio", TRUE, "mp4", None, 0, 1, 128),
        Stream("audio", TRUE, "mp4", None, 0, 1, 160),
        Stream("audio", TRUE, "webm", None, 0, 1, 160),
        Stream("audio", TRUE, "webm", None, 0, 1, None)}

\* _best_video_stream.res_px: int((s.resolution or "0p").rstrip("p"))
res_px(s) == IF s.res = None THEN 0 ELSE s.res

\* _best_video_stream.fps_val: int(getattr(s, "fps", 0) or 0)
fps_val(s) == IF s.fps = None THEN 0 ELSE s.fps

\* key=lambda s: (res_px(s), fps_val(s), getattr(s, "bitrate", 0))
VideoKey(s) == <<res_px(s), fps_val(s), s.bitrate>>

\* Python's order on tuples of integers of one length
RECURSIVE LexLess(_, _)
LexLess(a, b) ==
  IF a = <<>> THEN FALSE
  ELSE IF Head(a) # Head(b) THEN Head(a) < Head(b)
  ELSE LexLess(Tail(a), Tail(b))

\* One insertion of a stable sort over <<key, stream>> pairs: x goes behind
\* every element that is not after it in the order.
RECURSIVE InsertAsc(_, _)
InsertAsc(x, q) ==
  IF q = <<>> THEN <<x>>
  ELSE IF LexLess(x[1], Head(q)[1]) THEN <<x>> \o q
  ELSE <<Head(q)>> \o InsertAsc(x, Tail(q))

RECURSIVE InsertDesc(_, _)
InsertDesc(x, q) ==
  IF q = <<>> THEN <<x>>
  ELSE IF LexLess(Head(q)[1], x[1]) THEN <<x>> \o q
  ELSE <<Head(q)>> \o InsertDesc(x, Tail(q))

\* sorted(q, key=...): stable, ascending
RECURSIVE SortedAsc(_)
SortedAsc(q) ==
  IF q = <<>> THEN <<>>
  ELSE InsertAsc(q[Len(q)], SortedAsc(SubSeq(q, 1, Len(q) - 1)))

\* sorted(q, key=..., reverse=True): descending, equal keys in their
\* original order
RECURSIVE SortedDesc(_)
SortedDesc(q) ==
  IF q = <<>> THEN <<>>
  ELSE InsertDesc(q[Len(q)], SortedDesc(SubSeq(q, 1, Len(q) - 1)))

KeyedByVideoKey(q) == [i \in 1..Len(q) |-> <<VideoKey(q[i]), q[i]>>]
KeyedByResolution(q) == [i \in 1..Len(q) |-> <<<<q[i].res>>, q[i]>>]
KeyedByAbr(q) == [i \in 1..Len(q) |-> <<<<q[i].abr>>, q[i]>>]
Unkeyed(q) == [i \in 1..Len(q) |-> q[i][2]]
Reverse(q) == [i \in 1..Len(q) |-> q[Len(q) + 1 - i]]

\* StreamQuery.order_by("resolution"): the streams that carry the attribute,
\* in ascending order
OrderByResolution(q) ==
  Unkeyed(SortedAsc(KeyedByResolution(SelectSeq(q, LAMBDA s : s.res # None))))

\* StreamQuery.order_by("abr")
OrderByAbr(q) ==
  Unkeyed(SortedAsc(KeyedByAbr(SelectSeq(q, LAMBDA s : s.abr # None))))

\* StreamQuery.first() / .last(): a one-element sequence, <<>> for None
First(q) == IF q = <<>> THEN <<>> ELSE <<q[1]>>
Last(q) == IF q = <<>> THEN <<>> ELSE <<q[Len(q)]>>

\* A base query that forgets the container.
BaseVideoAnyContainer(q) ==
  SelectSeq(q, LAMBDA s : s.adaptive /\ s.kind = "video")

\* base = yt.streams.filter(adaptive=True, only_video=True, subtype="mp4")
BaseVideo(q) ==
  SelectSeq(q, LAMBDA s : s.adaptive /\ s.kind = "video" /\ s.subtype = "mp4")

\* A capped list that forgets the frame-rate cap.
CappedNoFps(base) == SelectSeq(base, LAMBDA s : res_px(s) <= MAX_RES)

\* the two list comprehensions of _best_video_stream
Capped(base) == SelectSeq(base, LAMBDA s : res_px(s) <= MAX_RES /\ fps_val(s) <= MAX_FPS)
Le1440(base) == SelectSeq(base, LAMBDA s : res_px(s) <= MAX_RES)

\* sorted(..., key=..., reverse=True)[0]
BestByKey(q) == <<Unkeyed(SortedDesc(KeyedByVideoKey(q)))[1]>>

\* _best_video_stream(yt)
best_video_stream(q) ==
  LET base == BaseVideo(q)
  IN IF Capped(base) # <<>> THEN BestByKey(Capped(base))
     ELSE IF Le1440(base) # <<>> THEN BestByKey(Le1440(base))
     ELSE First(Reverse(OrderByResolution(base)))

\* yt.streams.filter(only_audio=True)
OnlyAudio(q) == SelectSeq(q, LAMBDA s : s.kind = "audio")

\* An audio pick that forgets .desc().
lowest_audio_stream(q) == First(OrderByAbr(OnlyAudio(q)))

\* _best_audio_stream(yt): .filter(only_audio=True).order_by("abr").desc().first()
best_audio_stream(q) == First(Reverse(OrderByAbr(OnlyAudio(q))))

\* source.py download_audio: .filter(only_audio=True).order_by('abr').last()
download_audio_stream(q) == Last(OrderByAbr(OnlyAudio(q)))

\* candidate lists of at most n streams
CandLists(n) == UNION {[1..k -> StreamPool] : k \in 0..n}

\* The selection functions applied to every candidate list.
SelectInit ==
  /\ OrchIdle
  /\ ppc = "input"
  /\ cands \in CandLists(MaxCands)
  /\ vpick = <<>>
  /\ apick = <<>>
  /\ spick = <<>>
  /\ SlugIdle
  /\ BitrateIdle

selectRest == <<orchVars, cands, rawTitle, slug, chA, chB, brA, brB, probeIn,
                probeCh, probeBr>>

\* v_stream = _best_video_stream(yt)
PickVideo ==
  /\ ppc = "input"
  /\ vpick' = best_video_stream(cands)
  /\ ppc' = "best_video"
  /\ UNCHANGED <<selectRest, apick, spick>>

\* a_stream = _best_audio_stream(yt)
PickAudio ==
  /\ ppc = "input"
  /\ apick' = best_audio_stream(cands)
  /\ ppc' = "best_audio"
  /\ UNCHANGED <<selectRest, vpick, spick>>

\* source.py: stream = yt.streams.filter(only_audio=True).order_by('abr').last()
PickSourceAudio ==
  /\ ppc = "input"
  /\ spick' = download_audio_stream(cands)
  /\ ppc' = "source_audio"
  /\ UNCHANGED <<selectRest, vpick, apick>>

SelectNext == PickVideo \/ PickAudio \/ PickSourceAudio

SelectSpec == SelectInit /\ [][SelectNext]_vars

\* Names bound when line 19 of convert.py runs: those of the import
\* statements above it.  The def statements further down have not run yet.
ImportTimeGlobals ==
  {"Path", "os", "re", "sys", "Optional", "tqdm", "cookiejar", "MozillaCookieJar",
   "urlreq", "urlerr", "YouTube", "Playlist", "yt_ex", "ffmpeg"}

\* import of convert.py: with YT2MP3_NO_COOKIES=1 the module calls
\* _reset_opener() inside try/except Exception: pass (the NameError of a name
\* not yet bound is swallowed); further down _COOKIE_OPENER_ACTIVE = False.
ImportModule ==
  /\ upc = "import"
  /\ COOKIE_OPENER_ACTIVE' =
       (IF envNoCookies /\ "_reset_opener" \in ImportTimeGlobals
          THEN FALSE    \* _reset_opener()
          ELSE FALSE)   \* _COOKIE_OPENER_ACTIVE = False
  /\ upc' = "start"
  /\ UNCHANGED <<inputVars, resolved, nMembers, idx, reports, ipc, callVars,
                 authState, attempt, handle, err, exc, result, fs, OAUTH_PROMPTED,
                 attemptLog, transcodes, prompts, waits, verifierCalls, calls>>

\* ------------------------------------------------------------- process_url
\* _install_cookie_opener(verbose)
InstallCookieOpener ==
  /\ upc = "start"
  /\ COOKIE_OPENER_ACTIVE' = (IF cookieFile THEN TRUE ELSE COOKIE_OPENER_ACTIVE)
  /\ upc' = "resolve"
  /\ UNCHANGED <<inputVars, resolved, nMembers, idx, reports, ipc, callVars,
                 authState, attempt, handle, err, exc, result, fs, OAUTH_PROMPTED,
                 attemptLog, transcodes, prompts, waits, verifierCalls, calls>>

\* pl = Playlist(url); if pl.video_urls: ... playlist_dir.mkdir(...)
ResolvePlaylist ==
  /\ upc = "resolve"
  /\ \/ /\ resolved' = "error"          \* Playlist(url) / video_urls raises
        /\ nMembers' = 0 /\ idx' = idx /\ upc' = "single"
     \/ /\ resolved' = "empty"          \* pl.video_urls is empty
        /\ nMembers' = 0 /\ idx' = idx /\ upc' = "single"
     \/ \E n \in 1..MaxMembers :
          \/ /\ resolved' = "playlist"  \* directory created, loop entered
             /\ nMembers' = n /\ idx' = 1 /\ upc' = "loop"
          \/ /\ resolved' = "mkdir_failed"   \* caught by the outer except
             /\ nMembers' = n /\ idx' = idx /\ upc' = "single"
  /\ UNCHANGED <<inputVars, reports, ipc, callVars, authState, attempt, handle,
                 err, exc, result, fs, globalVars, attemptLog, transcodes,
                 prompts, waits, verifierCalls, calls>>

\* entry of _process_single(url, out_dir, download_video=..., verbose=...)
CallProcessSingle(i) ==
  /\ item' = i
  /\ title' \in Titles
  /\ download_video' = ArgDownloadVideo(mode)
  /\ use_mkv' = ArgUseMkv(mode)
  /\ authState' = "Anonymous"
  /\ handle' = AnonymousHandle
  /\ attempt' = 0
  /\ err' = "none"
  /\ exc' = "none"
  /\ result' = NoResult
  /\ attemptLog' = <<>>
  /\ transcodes' = <<>>
  /\ waits' = <<>>
  /\ verifierCalls' = 0
  /\ calls' = Append(calls, i)
  /\ ipc' = "build"

\* for idx, vid_url in enumerate(pl.video_urls, start=1): try: _process_single
MemberCall ==
  /\ upc = "loop"
  /\ idx <= nMembers
  /\ CallProcessSingle(idx)
  /\ upc' = "member"
  /\ UNCHANGED <<inputVars, resolved, nMembers, idx, reports, fs, globalVars, prompts>>

\* what the member loop prints for a finished member: a normal return is a
\* success unless result.name fails (result is None), an exception a failure
MemberReport(i, p, r) == [item |-> i, ok |-> (p = "returned" /\ r # PyNone)]

\* Variant: the member loop has no try/except around _process_single.
MemberDoneNoExcept ==
  /\ upc = "member"
  /\ ipc \in {"returned", "raised"}
  /\ reports' = Append(reports, MemberReport(idx, ipc, result))
  /\ idx' = idx + 1
  /\ upc' = (IF ipc = "raised" THEN "raised" ELSE "loop")
  /\ ipc' = "idle"
  /\ UNCHANGED <<inputVars, resolved, nMembers, callVars, authState, attempt,
                 handle, err, exc, result, fs, globalVars, attemptLog, transcodes,
                 prompts, waits, verifierCalls, calls>>

MemberDone ==
  /\ upc = "member"
  /\ ipc \in {"returned", "raised"}
  /\ reports' = Append(reports, MemberReport(idx, ipc, result))
  /\ idx' = idx + 1
  /\ upc' = "loop"
  /\ ipc' = "idle"
  /\ UNCHANGED <<inputVars, resolved, nMembers, callVars, authState, attempt,
                 handle, err, exc, result, fs, globalVars, attemptLog, transcodes,
                 prompts, waits, verifierCalls, calls>>

\* the member loop is over: return
LoopEnd ==
  /\ upc = "loop"
  /\ idx > nMembers
  /\ upc' = "returned"
  /\ UNCHANGED <<inputVars, resolved, nMembers, idx, reports, ipc, callVars,
                 authState, attempt, handle, err, exc, result, fs, globalVars,
                 attemptLog, transcodes, prompts, waits, verifierCalls, calls>>

\* Single video: try: result = _process_single(url, out_dir, ...)
SingleCall ==
  /\ upc = "single"
  /\ CallProcessSingle(0)
  /\ upc' = "single_run"
  /\ UNCHANGED <<inputVars, resolved, nMembers, idx, reports, fs, globalVars, prompts>>

\* print(f"✓ {result}") on any normal return; print the failure and raise
SingleReport(p) == [item |-> 0, ok |-> (p = "returned")]

SingleDone ==
  /\ upc = "single_run"
  /\ ipc \in {"returned", "raised"}
  /\ reports' = Append(reports, SingleReport(ipc))
  /\ upc' = (IF ipc = "returned" THEN "returned" ELSE "raised")
  /\ ipc' = "idle"
  /\ UNCHANGED <<inputVars, resolved, nMembers, idx, callVars, authState, attempt,
                 handle, err, exc, result, fs, globalVars, attemptLog, transcodes,
                 prompts, waits, verifierCalls, calls>>

\* --------------------------------------------------------- _process_single
itemRest == <<inputVars, urlVars, callVars>>

\* yt = YouTube(url, ...) and the first use of the handle inside run_with
\* (yt.title, yt.streams): the platform answers or raises.  A handle built
\* with oauth_verifier and no token cache runs the device flow first.
Build ==
  /\ ipc = "build"
  /\ attemptLog' = Append(attemptLog, authState)
  /\ IF handle.verifier
       THEN oauth_verifier_once
       ELSE UNCHANGED <<prompts, OAUTH_PROMPTED, verifierCalls>>
  /\ \/ /\ ipc' = "select"
        /\ err' = err
     \/ \E e \in ExtractErrors :
          /\ err' = e
          /\ ipc' = "except"
  /\ UNCHANGED <<itemRest, authState, attempt, handle, exc, result, fs,
                 COOKIE_OPENER_ACTIVE, transcodes, waits, calls>>

\* _best_video_stream / _best_audio_stream and the "No suitable ... stream
\* found" check
Select ==
  /\ ipc = "select"
  /\ \/ /\ ipc' = (IF download_video THEN "dl_video" ELSE "dl_audio")
        /\ err' = err
     \/ /\ err' = "RuntimeError"
        /\ ipc' = "except"
  /\ UNCHANGED <<itemRest, authState, attempt, handle, exc, result, fs, globalVars,
                 attemptLog, transcodes, prompts, waits, verifierCalls, calls>>

\* _download_stream(stream, target): the file is complete on success; a
\* failed transfer leaves what it had written, or nothing
DownloadStream(kind, next) ==
  /\ \/ /\ fs' = [fs EXCEPT ![<<kind, title>>] = "complete"]
        /\ ipc' = next
        /\ err' = err
     \/ \E e \in HTTPErrors, left \in {"partial", fs[<<kind, title>>]} :
          /\ fs' = [fs EXCEPT ![<<kind, title>>] = left]
          /\ err' = e
          /\ ipc' = "except"
  /\ UNCHANGED <<itemRest, authState, attempt, handle, exc, result, globalVars,
                 attemptLog, transcodes, prompts, waits, verifierCalls, calls>>

\* _download_video: _download_stream(v_stream, tmp_v)
DownloadVideo ==
  /\ ipc = "dl_video"
  /\ DownloadStream("tmp_video", "dl_audio")

\* _download_video / _download_audio: _download_stream(a_stream, tmp_a)
DownloadAudio ==
  /\ ipc = "dl_audio"
  /\ DownloadStream("tmp_audio", "transcode")

\* ffmpeg ... .overwrite_output().run(): the transcoder starts.  It fails at
\* once, or opens out_path for writing.
TranscodeStart ==
  /\ ipc = "transcode"
  /\ transcodes' = Append(transcodes, TranscodeOp(download_video, use_mkv))
  /\ \/ /\ err' = "FfmpegError"
        /\ ipc' = "except"
        /\ fs' = fs
     \/ /\ fs' = [fs EXCEPT ![<<OutKind(download_video, use_mkv), title>>] = "partial"]
        /\ ipc' = "transcoding"
        /\ err' = err
  /\ UNCHANGED <<itemRest, authState, attempt, handle, exc, result, globalVars,
                 attemptLog, prompts, waits, verifierCalls, calls>>

\* the transcoder exits: 0, or non-zero with out_path as far as it got
TranscodeFinish ==
  /\ ipc = "transcoding"
  /\ \/ /\ fs' = [fs EXCEPT ![<<OutKind(download_video, use_mkv), title>>] = "complete"]
        /\ ipc' = "cleanup"
        /\ err' = err
     \/ /\ err' = "FfmpegError"
        /\ ipc' = "except"
        /\ fs' = fs
  /\ UNCHANGED <<itemRest, authState, attempt, handle, exc, result, globalVars,
                 attemptLog, transcodes, prompts, waits, verifierCalls, calls>>

\* tmp_v.unlink(missing_ok=True); tmp_a.unlink(missing_ok=True); return out_path
Unlinked(files, dv, t) ==
  [f \in FileNames |-> IF f[2] = t /\ f[1] \in TmpOf(dv) THEN "absent" ELSE files[f]]

CleanupReturn ==
  /\ ipc = "cleanup"
  /\ fs' = Unlinked(fs, download_video, title)
  /\ result' = <<OutKind(download_video, use_mkv), title>>
  /\ ipc' = "returned"
  /\ UNCHANGED <<itemRest, authState, attempt, handle, err, exc, globalVars,
                 attemptLog, transcodes, prompts, waits, verifierCalls, calls>>

\* Variant: try block 2 is entered without _reset_opener().
HandleAnonymousKeepsOpener ==
  /\ ipc = "except"
  /\ authState = "Anonymous"
  /\ IF AnonymousEscalates(err, verbose)
       THEN /\ authState' = "OAuthCached"
            /\ handle' = CachedHandle
            /\ ipc' = "build"
            /\ exc' = exc
       ELSE /\ exc' = err
            /\ ipc' = "raised"
            /\ UNCHANGED <<authState, handle>>
  /\ UNCHANGED <<itemRest, attempt, err, result, fs, globalVars, attemptLog,
                 transcodes, prompts, waits, verifierCalls, calls>>

\* except yt_ex.AgeRestrictedError / except urlerr.HTTPError of try block 1,
\* then _reset_opener() and the entry of try block 2
HandleAnonymous ==
  /\ ipc = "except"
  /\ authState = "Anonymous"
  /\ IF AnonymousEscalates(err, verbose)
       THEN /\ COOKIE_OPENER_ACTIVE' = FALSE
            /\ authState' = "OAuthCached"
            /\ handle' = CachedHandle
            /\ ipc' = "build"
            /\ exc' = exc
       ELSE /\ exc' = err
            /\ ipc' = "raised"
            /\ UNCHANGED <<COOKIE_OPENER_ACTIVE, authState, handle>>
  /\ UNCHANGED <<itemRest, attempt, err, result, fs, OAUTH_PROMPTED, attemptLog,
                 transcodes, prompts, waits, verifierCalls, calls>>

\* Variant: try block 2 is entered a second time before the fresh handle.
HandleCachedRetriesOnce ==
  /\ ipc = "except"
  /\ authState = "OAuthCached"
  /\ IF CachedEscalates(err, verbose)
       THEN /\ authState' = (IF attempt = 0 THEN "OAuthCached" ELSE "OAuthFresh")
            /\ handle' = (IF attempt = 0 THEN CachedHandle ELSE FreshHandle)
            /\ attempt' = (IF attempt = 0 THEN 1 ELSE 0)
            /\ ipc' = "build"
            /\ exc' = exc
       ELSE /\ exc' = err
            /\ ipc' = "raised"
            /\ UNCHANGED <<authState, handle, attempt>>
  /\ UNCHANGED <<itemRest, err, result, fs, globalVars, attemptLog, transcodes,
                 prompts, waits, verifierCalls, calls>>

\* except clauses of try block 2, then the fresh handle and the loop entry
HandleCached ==
  /\ ipc = "except"
  /\ authState = "OAuthCached"
  /\ IF CachedEscalates(err, verbose)
       THEN /\ authState' = "OAuthFresh"
            /\ handle' = FreshHandle
            /\ attempt' = 0
            /\ ipc' = "build"
            /\ exc' = exc
       ELSE /\ exc' = err
            /\ ipc' = "raised"
            /\ UNCHANGED <<authState, handle, attempt>>
  /\ UNCHANGED <<itemRest, err, result, fs, globalVars, attemptLog, transcodes,
                 prompts, waits, verifierCalls, calls>>

\* except urlerr.HTTPError of the loop "for attempt in range(5)".  On 428
\* the handler computes the wait and calls time.sleep: the name time is
\* looked up in the module namespace, and NameError leaves the handler when it
\* is not bound.  Past the sleep the handle is rebuilt from the cached token
\* and the loop continues; when range(5) is used up the function ends
\* without a return statement.
HandleFresh ==
  /\ ipc = "except"
  /\ authState = "OAuthFresh"
  /\ IF FreshRetries(err)
       THEN IF NameDefined("time")
              THEN /\ waits' = Append(waits, WAIT_BASE + attempt * WAIT_STEP)
                   /\ handle' = CachedHandle
                   /\ exc' = exc
                   /\ IF attempt + 1 < FRESH_TRIES
                        THEN /\ attempt' = attempt + 1
                             /\ ipc' = "build"
                             /\ result' = result
                        ELSE /\ attempt' = attempt
                             /\ result' = PyNone
                             /\ ipc' = "returned"
              ELSE /\ exc' = "NameError"
                   /\ ipc' = "raised"
                   /\ UNCHANGED <<waits, handle, attempt, result>>
       ELSE /\ exc' = err
            /\ ipc' = "raised"
            /\ UNCHANGED <<waits, handle, attempt, result>>
  /\ UNCHANGED <<itemRest, authState, err, fs, globalVars, attemptLog, transcodes,
                 prompts, verifierCalls, calls>>

Next ==
  \/ ImportModule
  \/ InstallCookieOpener
  \/ ResolvePlaylist
  \/ MemberCall
  \/ MemberDone
  \/ LoopEnd
  \/ SingleCall
  \/ SingleDone
  \/ Build
  \/ Select
  \/ DownloadVideo
  \/ DownloadAudio
  \/ TranscodeStart
  \/ TranscodeFinish
  \/ CleanupReturn
  \/ HandleAnonymous
  \/ HandleCached
  \/ HandleFresh

Spec == Init /\ [][Next]_vars

\* ------------------------------------------------------------------ claims
\* _process_single has handed control back to process_url
ItemEnded == ipc \in {"returned", "raised"}

\* _process_single returned an output path
ItemSucceeded == ipc = "returned" /\ result[1] \in OutKinds

\* number of attempts of the current item made in state s
AttemptsIn(s) == Cardinality({i \in 1..Len(attemptLog) : attemptLog[i] = s})

\* C1: when _process_single hands control back, on success and on every
\* failure, neither .tmp_<title>.video nor .tmp_<title>.audio of the item
\* exists in the output directory.
C1_NoTempFileAtReturn ==
  ItemEnded => \A k \in TmpKinds : fs[<<k, title>>] = "absent"

\* C2: whatever the verbose flag, an Anonymous attempt that fails with an
\* age-restricted error or HTTP 400 is not propagated (OAuthCached is tried),
\* and an OAuthCached attempt that fails with an age-restricted /
\* age-check-needs-account error or HTTP 400 is not propagated (OAuthFresh is
\* tried): _process_single never ends with such an error in those states.
C2_EscalatingErrorNotPropagated ==
  /\ (ipc = "raised" /\ authState = "Anonymous")
       => err \notin {"AgeRestrictedError", "HTTP400"}
  /\ (ipc = "raised" /\ authState = "OAuthCached")
       => err \notin {"AgeRestrictedError", "AgeCheckRequiredAccountError", "HTTP400"}

\* the item ended in the OAuthFresh state without an output, its last
\* attempt failing with HTTP 428 (every OAuthFresh attempt did: any other
\* failure ends the item at once)
TransientLadderOver ==
  /\ authState = "OAuthFresh"
  /\ err = "HTTP428"
  /\ ItemEnded
  /\ ~ItemSucceeded

\* C3: when every OAuthFresh attempt fails with HTTP 428, exactly 5 attempts
\* (1 immediate + 4 retries) are made in that state before _process_single
\* stops attempting.
C3_FiveFreshAttempts ==
  TransientLadderOver => AttemptsIn("OAuthFresh") = FRESH_TRIES

C5_SingleDevicePrompt ==
  /\ [](/\ OAUTH_PROMPTED <=> (prompts # <<>>)
        /\ \A i \in 1..Len(prompts) :
             prompts[i] = (IF i = 1 THEN "device" ELSE "finish"))
  /\ [][OAUTH_PROMPTED => OAUTH_PROMPTED']_vars

\* two items of one process reached the verifier
C5_Witness == Len(prompts) = 2 /\ prompts[2] = "finish"

\* C6: in a playlist run every member is handed to _process_single exactly
\* once and in playlist order, each gets one report (a success only if it
\* returned a path), a failed member does not stop the loop, and process_url
\* returns without raising once all n members are reported.
C6_PlaylistProcessesEveryMember ==
  resolved = "playlist" =>
    /\ upc # "raised"
    /\ Len(calls) <= nMembers
    /\ \A i \in 1..Len(calls) : calls[i] = i
    /\ Len(reports) = (IF upc = "member" THEN Len(calls) - 1 ELSE Len(calls))
    /\ \A i \in 1..Len(reports) : reports[i].item = i
    /\ (upc = "loop" /\ reports # <<>>) =>
         (reports[Len(reports)].ok <=> (exc = "none" /\ result[1] \in OutKinds))
    /\ (upc = "loop" /\ idx <= nMembers) => ENABLED MemberCall
    /\ upc = "returned" => Len(reports) = nMembers

\* a two-member playlist whose first member failed and whose second succeeded
C6_Witness ==
  /\ resolved = "playlist"
  /\ upc = "returned"
  /\ nMembers = 2
  /\ ~reports[1].ok
  /\ reports[2].ok

\* the failure of the attempt that just ended is not one the state handles
NonEscalating ==
  /\ ipc = "except"
  /\ \/ /\ authState \in {"Anonymous", "OAuthCached"}
        /\ err \notin {"AgeRestrictedError", "AgeCheckRequiredAccountError", "HTTP400"}
     \/ /\ authState = "OAuthFresh"
        /\ err # "HTTP428"

\* C7: in Anonymous and OAuthCached a failure other than the escalating ones
\* (HTTP 403, HTTP 428, a stream-selection RuntimeError, ...) and in OAuthFresh
\* a failure other than HTTP 428 is propagated at once: the next step of the
\* item raises that error, and a raised item makes no further attempt.
C7_OtherErrorsPropagate ==
  [][/\ NonEscalating =>
          (ipc' = "raised" /\ exc' = err /\ attemptLog' = attemptLog)
     /\ ipc = "raised" =>
          (ipc' \in {"raised", "idle"} /\ attemptLog' = attemptLog)]_vars

\* HTTP 428 in the OAuthCached state was propagated after two attempts
C7_Witness ==
  /\ ipc = "raised"
  /\ authState = "OAuthCached"
  /\ exc = "HTTP428"
  /\ attemptLog = <<"Anonymous", "OAuthCached">>

\* C8: when the Anonymous attempt fails with an age-restriction error and the
\* OAuthCached attempt succeeds, _process_single returns the output path after
\* exactly 2 attempts, without entering OAuthFresh and without a call of
\* _oauth_verifier_once.
C8_CachedSuccessInTwoAttempts ==
  (ipc = "returned" /\ authState = "OAuthCached" /\ err = "AgeRestrictedError") =>
    /\ attemptLog = <<"Anonymous", "OAuthCached">>
    /\ result = <<OutKind(download_video, use_mkv), title>>
    /\ fs[result] = "complete"
    /\ verifierCalls = 0

\* the age-restricted item was delivered by the cached-token attempt
C8_Witness ==
  /\ ipc = "returned"
  /\ authState = "OAuthCached"
  /\ err = "AgeRestrictedError"
  /\ result[1] \in OutKinds

\* C9: when the transcoder exits non-zero, no partially written file is left
\* at the final output path once the item's processing has returned.
C9_NoPartialOutput ==
  (ipc = "raised" /\ exc = "FfmpegError") =>
    fs[<<OutKind(download_video, use_mkv), title>>] # "partial"

\* C10: every successful item ran exactly one transcode operation, the one
\* of the requested mode, and delivered that mode's extension: audio ->
\* transcode_audio_only / mp3, video -> mux_and_transcode / mp4, video_remux
\* -> remux / mkv.
C10_ModeSelectsTranscode ==
  ItemSucceeded =>
    /\ transcodes = <<ModeOp(mode)>>
    /\ result[1] = ModeKind(mode)

\* ------------------------------------------------------------- _slugify
\* Longest title the slug specification draws.
MaxTitleLen == 3

\* the character class [\\/:*?"<>|]
Hostile == {"\\", "/", ":", "*", "?", "\"", "<", ">", "|"}

\* characters matched by \s and removed by str.strip()
Whitespace == {" ", "\t", "\n"}

\* Titles are sequences of characters.
TitleChars == Hostile \cup Whitespace \cup {"a", "."}
TitleStrings(n) == UNION {[1..k -> TitleChars] : k \in 0..n}

RECURSIVE LStrip(_, _)
LStrip(t, S) ==
  IF t # <<>> /\ Head(t) \in S THEN LStrip(Tail(t), S) ELSE t

\* str.rstrip(chars)
RECURSIVE RStrip(_, _)
RStrip(t, S) ==
  IF t # <<>> /\ t[Len(t)] \in S THEN RStrip(SubSeq(t, 1, Len(t) - 1), S) ELSE t

\* str.strip()
Strip(t) == RStrip(LStrip(t, Whitespace), Whitespace)

\* re.sub(r'[S]+', ' ', t): every maximal run of characters of S becomes one
\* space
RECURSIVE SubRuns(_, _)
SubRuns(t, S) ==
  IF t = <<>> THEN <<>>
  ELSE IF Head(t) \in S THEN <<" ">> \o SubRuns(LStrip(Tail(t), S), S)
  ELSE <<Head(t)>> \o SubRuns(Tail(t), S)

\* A slug whose last step strips spaces only.
slugify_rstrip_space(t) ==
  RStrip(Strip(SubRuns(SubRuns(t, Hostile), Whitespace)), {" "})

\* _slugify(title)
slugify(t) ==
  RStrip(Strip(SubRuns(SubRuns(t, Hostile), Whitespace)), {".", " "})

\* _slugify applied to every title.
SlugInit ==
  /\ OrchIdle
  /\ ppc = "input"
  /\ rawTitle \in TitleStrings(MaxTitleLen)
  /\ slug = <<>>
  /\ SelectIdle
  /\ BitrateIdle

\* safe_title = _slugify(yt.title)
Slugify ==
  /\ ppc = "input"
  /\ slug' = slugify(rawTitle)
  /\ ppc' = "slugified"
  /\ UNCHANGED <<orchVars, cands, vpick, apick, spick, rawTitle, chA, chB,
                 brA, brB, probeIn, probeCh, probeBr>>

SlugNext == Slugify

SlugSpec == SlugInit /\ [][SlugNext]_vars

\* ------------------------------------------------------- AAC bitrate steps
\* Largest channel count the bitrate specification draws.
MaxChannels == 9

\* Outcomes of ffmpeg.probe: it raises, the file has no audio stream, the
\* audio stream has no "channels" entry, or it reports c channels.
ProbeOutcomes(n) ==
  {<<"error", 0>>, <<"no_audio", 0>>, <<"no_channels", 0>>}
    \cup {<<"channels", c>> : c \in 0..n}

Min2(a, b) == IF a <= b THEN a ELSE b
Max2(a, b) == IF a >= b THEN a ELSE b

\* _probe_audio_channels(path)
probe_audio_channels(p) ==
  IF p[1] = "channels" THEN Max2(1, Min2(IF p[2] = 0 THEN 2 ELSE p[2], 8))
  ELSE IF p[1] = "no_channels" THEN Max2(1, Min2(2, 8))
  ELSE 2

\* Bitrate steps with the two upper steps exchanged.
aac_bitrate_steps_exchanged(ch) ==
  IF ch >= 8 THEN "384k"
  ELSE IF ch >= 6 THEN "512k"
  ELSE IF ch >= 3 THEN "256k"
  ELSE "192k"

\* _aac_bitrate_for_channels(ch)
aac_bitrate_for_channels(ch) ==
  IF ch >= 8 THEN "512k"
  ELSE IF ch >= 6 THEN "384k"
  ELSE IF ch >= 3 THEN "256k"
  ELSE "192k"

\* The value ffmpeg reads from a "-b:a" argument, in kbit/s.
Kbps(b) ==
  CASE b = "192k" -> 192
    [] b = "256k" -> 256
    [] b = "384k" -> 384
    [] b = "512k" -> 512

\* The bitrate function applied to every pair of channel counts, and the
\* probe to every outcome.
BitrateInit ==
  /\ OrchIdle
  /\ ppc = "input"
  /\ chA \in 0..MaxChannels
  /\ chB \in 0..MaxChannels
  /\ brA = ""
  /\ brB = ""
  /\ probeIn \in ProbeOutcomes(MaxChannels)
  /\ probeCh = 0
  /\ probeBr = ""
  /\ SelectIdle
  /\ SlugIdle

bitrateRest == <<orchVars, cands, vpick, apick, spick, rawTitle, slug, chA,
                 chB, probeIn>>

\* abitrate = _aac_bitrate_for_channels(ch), for two channel counts
Bitrates ==
  /\ ppc = "input"
  /\ brA' = aac_bitrate_for_channels(chA)
  /\ brB' = aac_bitrate_for_channels(chB)
  /\ ppc' = "bitrates"
  /\ UNCHANGED <<bitrateRest, probeCh, probeBr>>

\* _mux_av: ch = _probe_audio_channels(audio_path); abitrate = ...
ProbeAndPick ==
  /\ ppc = "input"
  /\ probeCh' = probe_audio_channels(probeIn)
  /\ probeBr' = aac_bitrate_for_channels(probeCh')
  /\ ppc' = "probed"
  /\ UNCHANGED <<bitrateRest, brA, brB>>

BitrateNext == Bitrates \/ ProbeAndPick

BitrateSpec == BitrateInit /\ [][BitrateNext]_vars

\* ------------------------------------------------- claims on stream selection
ElemsOf(q) == {q[i] : i \in DOMAIN q}
AdaptiveMp4Video ==
  {s \in ElemsOf(cands) : s.adaptive /\ s.kind = "video" /\ s.subtype = "mp4"}
WithinBothCaps == {s \in AdaptiveMp4Video : res_px(s) <= 1440 /\ fps_val(s) <= 60}
WithinResCap == {s \in AdaptiveMp4Video : res_px(s) <= 1440}
KeyMaximalIn(p, S) == p \in S /\ \A s \in S : ~LexLess(VideoKey(p), VideoKey(s))

\* C11: when some adaptive mp4 video-only candidate is within 1440p and 60 fps,
\* _best_video_stream returns a candidate within both caps whose key
\* (resolution, frame rate, bitrate) is maximal among the capped candidates;
\* when none is within both caps but some is within the resolution cap, it
\* returns a candidate within the resolution cap with the same tie-break.
C11_CappedVideoPick ==
  ppc = "best_video" =>
    /\ WithinBothCaps # {} =>
         vpick # <<>> /\ KeyMaximalIn(vpick[1], WithinBothCaps)
    /\ (WithinBothCaps = {} /\ WithinResCap # {}) =>
         vpick # <<>> /\ KeyMaximalIn(vpick[1], WithinResCap)

\* A pick among several capped candidates while a candidate over the
\* frame-rate cap has the greater key.
C11_Witness ==
  /\ ppc = "best_video"
  /\ Cardinality(WithinBothCaps) >= 2
  /\ \E s \in WithinResCap \ WithinBothCaps :
       LexLess(VideoKey(vpick[1]), VideoKey(s))
  /\ \E s \in WithinBothCaps : LexLess(VideoKey(s), VideoKey(vpick[1]))

VideoOnly == {s \in ElemsOf(cands) : s.kind = "video"}

\* C12 as stated: _best_video_stream returns none only when the list holds
\* no video stream, and when no adaptive mp4 candidate satisfies the caps it
\* returns the highest-resolution video candidate of any container.
C12_NoneOnlyWithoutVideo ==
  ppc = "best_video" =>
    /\ vpick = <<>> => VideoOnly = {}
    /\ (WithinResCap = {} /\ vpick # <<>>) =>
         \A s \in VideoOnly : res_px(s) <= res_px(vpick[1])

\* C12 amended: _best_video_stream returns none exactly when the list holds
\* no adaptive mp4 video-only candidate; when none of them is within the
\* resolution cap it returns one of them of the highest resolution, of any
\* frame rate.
C12_NoneIffNoAdaptiveMp4 ==
  ppc = "best_video" =>
    /\ vpick = <<>> <=> AdaptiveMp4Video = {}
    /\ (WithinResCap = {} /\ AdaptiveMp4Video # {}) =>
         /\ vpick[1] \in AdaptiveMp4Video
         /\ \A s \in AdaptiveMp4Video : res_px(s) <= res_px(vpick[1])

\* The fallback picks an mp4 stream over the resolution cap while a webm
\* stream of higher resolution is in the list.
C12_Witness ==
  /\ ppc = "best_video"
  /\ WithinResCap = {}
  /\ vpick # <<>>
  /\ res_px(vpick[1]) > 1440
  /\ \E s \in VideoOnly : s.subtype = "webm" /\ res_px(s) > res_px(vpick[1])

AudioOnly == {s \in ElemsOf(cands) : s.kind = "audio"}
AudioWithAbr == {s \in AudioOnly : s.abr # None}
MaxAbrOf(p, S) ==
  /\ p = <<>> <=> S = {}
  /\ p # <<>> => p[1] \in S /\ \A s \in S : s.abr <= p[1].abr

\* C13 as stated: both audio selections return an audio-only candidate of
\* maximal average bitrate over all audio-only candidates, and none exactly
\* when the list holds no audio-only candidate.
C13_MaxOverAllAudio ==
  /\ ppc = "best_audio" => MaxAbrOf(apick, AudioOnly)
  /\ ppc = "source_audio" => MaxAbrOf(spick, AudioOnly)

\* C13 amended: both audio selections return an audio-only candidate of
\* maximal average bitrate over the audio-only candidates that carry an
\* average bitrate, whatever their containers, and none exactly when no
\* audio-only candidate carries one.
C13_MaxOverAudioWithAbr ==
  /\ ppc = "best_audio" => MaxAbrOf(apick, AudioWithAbr)
  /\ ppc = "source_audio" => MaxAbrOf(spick, AudioWithAbr)

\* A webm stream is picked over an mp4 stream of lower bitrate while a stream
\* without a bitrate is in the list.
C13_Witness ==
  /\ ppc = "best_audio"
  /\ apick # <<>>
  /\ apick[1].subtype = "webm"
  /\ \E s \in AudioWithAbr : s.subtype = "mp4" /\ s.abr < apick[1].abr
  /\ AudioOnly # AudioWithAbr

\* ---------------------------------------------- claims on the pure helpers
\* C14: for every title, _slugify returns a string with none of the characters
\* \ / : * ? " < > |, with no whitespace other than single spaces and no run
\* of two or more whitespace characters, and that does not end with a dot or a
\* space.
C14_SlugIsClean ==
  ppc = "slugified" =>
    /\ \A i \in DOMAIN slug :
         /\ slug[i] \notin Hostile
         /\ slug[i] \in Whitespace => slug[i] = " "
    /\ \A i \in 1..(Len(slug) - 1) :
         ~(slug[i] \in Whitespace /\ slug[i + 1] \in Whitespace)
    /\ slug # <<>> => slug[Len(slug)] \notin {".", " "}

\* A title with a hostile character and a tab that keeps a non-empty slug.
C14_Witness ==
  /\ ppc = "slugified"
  /\ \E i \in DOMAIN rawTitle : rawTitle[i] \in Hostile
  /\ \E i \in DOMAIN rawTitle : rawTitle[i] = "\t"
  /\ slug # <<>>
  /\ slug # rawTitle

\* C15: the AAC bitrate is monotonic non-decreasing in the channel count, and
\* a failed channel probe yields 2 channels and with them the lowest bitrate
\* step.
C15_BitrateMonotonic ==
  /\ (ppc = "bitrates" /\ chA <= chB) => Kbps(brA) <= Kbps(brB)
  /\ (ppc = "probed" /\ probeIn[1] \in {"error", "no_audio"}) =>
       /\ probeCh = 2
       /\ \A c \in 0..MaxChannels :
            Kbps(probeBr) <= Kbps(aac_bitrate_for_channels(c))

\* Two channel counts on different steps, the larger beyond the probe's range.
C15_Witness ==
  /\ ppc = "bitrates"
  /\ chA < chB
  /\ chB > 8
  /\ Kbps(brA) < Kbps(brB)

\* ------------------------------------------- claims on the attempt ladder
ModeRank(m) ==
  CASE m = "Anonymous" -> 1
    [] m = "OAuthCached" -> 2
    [] m = "OAuthFresh" -> 3

\* one Anonymous, one OAuthCached and the OAuthFresh loop
MaxAttempts == 2 + FRESH_TRIES

ItemRunning == ipc \notin {"idle", "returned", "raised"}

\* steps of _process_single left inside the current attempt
StepsLeft ==
  CASE ipc = "select" -> 8
    [] ipc = "dl_video" -> 7
    [] ipc = "dl_audio" -> 6
    [] ipc = "transcode" -> 5
    [] ipc = "transcoding" -> 4
    [] ipc = "cleanup" -> 3
    [] ipc = "except" -> 2
    [] ipc \in {"returned", "raised"} -> 1
    [] OTHER -> 0

\* a measure of the work _process_single has left: the attempts it may still
\* start, then the steps of the running attempt
ItemMeasure == 10 * (MaxAttempts - Len(attemptLog)) + StepsLeft

ItemNext ==
  \/ Build \/ Select \/ DownloadVideo \/ DownloadAudio \/ TranscodeStart
  \/ TranscodeFinish \/ CleanupReturn
  \/ HandleAnonymous \/ HandleCached \/ HandleFresh

\* C16: the attempts of one item are ordered Anonymous, OAuthCached,
\* OAuthFresh, with at most one Anonymous, at most one OAuthCached and at most
\* 5 OAuthFresh attempts, hence at most 7; and _process_single terminates for
\* every pattern of failures: while it runs it can always take a step, and
\* every step lowers a measure that is never negative.
C16_OrderedAttemptsTerminate ==
  /\ [](/\ \A i, j \in 1..Len(attemptLog) :
             i < j => ModeRank(attemptLog[i]) < ModeRank(attemptLog[j])
                        \/ (attemptLog[i] = "OAuthFresh" /\ attemptLog[j] = "OAuthFresh")
        /\ AttemptsIn("Anonymous") <= 1
        /\ AttemptsIn("OAuthCached") <= 1
        /\ AttemptsIn("OAuthFresh") <= FRESH_TRIES
        /\ Len(attemptLog) <= MaxAttempts
        /\ ItemMeasure >= 0
        /\ ItemRunning => ENABLED ItemNext)
  /\ [][ItemRunning => ItemMeasure' < ItemMeasure]_vars

\* an item that went through the three modes and ended
C16_Witness ==
  /\ ItemEnded
  /\ attemptLog = <<"Anonymous", "OAuthCached", "OAuthFresh">>

\* the waits of the ladder: 3 + attempt * 2 for the retries 1..4
LadderWaits == [k \in 1..(FRESH_TRIES - 1) |-> WAIT_BASE + (k - 1) * WAIT_STEP]

\* an OAuthFresh attempt has just failed with HTTP 428
FreshAttemptFailed428 ==
  ipc = "except" /\ authState = "OAuthFresh" /\ err = "HTTP428"

SinglePathRan == \E i \in 1..Len(calls) : calls[i] = 0

\* C18: process_url takes the single-item path exactly when playlist
\* resolution failed or returned no member: once a non-empty member list was
\* returned the playlist URL is never handed to _process_single.
C18_SinglePathIffNoMembers ==
  /\ (upc \in {"single", "single_run"} \/ SinglePathRan)
       => resolved \in {"error", "empty"}
  /\ resolved \in {"error", "empty"} =>
       (upc = "single" \/ SinglePathRan)
  /\ nMembers > 0 => ~SinglePathRan

\* C19: with YT2MP3_NO_COOKIES=1 the cookie-carrying opener is active during
\* no attempt of the process_url call, whether or not the cookies file exists.
C19_NoCookiesWhenDisabled ==
  (envNoCookies /\ ItemRunning) => ~COOKIE_OPENER_ACTIVE

\* process_url is past _install_cookie_opener
OpenerInstalled == upc \notin {"import", "start"}

\* C20: within one process_url call the cookie-carrying opener is inactive
\* during every OAuthCached and OAuthFresh attempt, the escalation past
\* Anonymous switches it off, and past _install_cookie_opener it never
\* becomes active again: it stays inactive for every later attempt, the
\* Anonymous attempts of later members included.
C20_OpenerOffAfterEscalation ==
  /\ []((ItemRunning /\ authState \in {"OAuthCached", "OAuthFresh"})
          => ~COOKIE_OPENER_ACTIVE)
  /\ [][(authState = "Anonymous" /\ authState' = "OAuthCached")
          => ~COOKIE_OPENER_ACTIVE']_vars
  /\ [][(OpenerInstalled /\ ~COOKIE_OPENER_ACTIVE) => ~COOKIE_OPENER_ACTIVE']_vars

\* the Anonymous attempt of a second member runs without the opener that the
\* call had installed: the first member escalated
C20_Witness ==
  /\ cookieFile
  /\ item = 2
  /\ ipc = "select"
  /\ authState = "Anonymous"
  /\ ~COOKIE_OPENER_ACTIVE

\* ------------------------------------------------ claims on the output files
\* finished output files in the directory the run writes to
FinishedOutputs == {f \in FileNames : f[1] \in OutKinds /\ fs[f] = "complete"}

\* members the loop reported as successful
SuccessfulMembers == {i \in 1..Len(reports) : reports[i].ok}

\* C21: after a playlist run the successful members have produced distinct
\* output files: there are as many finished output files in the playlist
\* subdirectory as members reported successful, none having been overwritten
\* by another member, also when two members' titles sanitize to the same
\* base filename.
C21_DistinctOutputsPerMember ==
  (resolved = "playlist" /\ upc = "returned") =>
    Cardinality(FinishedOutputs) = Cardinality(SuccessfulMembers)

=============================================================================
